---- MODULE Spec2Model ----
(***************************************************************************)
(* Model of the food-rescue allocation engine (src/algos.py, src/main.py). *)
(*                                                                         *)
(* Conventions.                                                            *)
(*  - Python lists are TLA+ sequences, so index 0 of the code is index 1   *)
(*    here.                                                                *)
(*  - statistics.median of an even number of values is the mean of the two *)
(*    middle ones and may be a half.  Fairness weights are therefore kept  *)
(*    in HALF units: a weight vector entry w stands for the number w / 2.  *)
(*  - A solver variable's varValue is kept in TENTHS (10 stands for 1.0,   *)
(*    5 for 0.5); NoValue stands for Python's None.                        *)
(***************************************************************************)
EXTENDS Integers, Sequences, FiniteSets, TLC

VARIABLES pc, agencies, donors, drivers, adjMatrix,
          agencyWeights, feasibilityMatrix,
          status, xVal, yVal, rVal, rfVal, allocation, agencyUtilities,
          pool, summary, greedyUtilities

vars == <<pc, agencies, donors, drivers, adjMatrix,
          agencyWeights, feasibilityMatrix,
          status, xVal, yVal, rVal, rfVal, allocation, agencyUtilities,
          pool, summary, greedyUtilities>>

(***************************************************************************)
(* Bounds of the model.                                                    *)
(***************************************************************************)
MaxBatch == 3
MaxAgencies == 2
MaxDonors == 2
MaxItems == 1
MaxDrivers == 1
MaxTimeSteps == 2

(***************************************************************************)
(* Generic helpers.                                                        *)
(***************************************************************************)
SeqsUpTo(S, n) == UNION {[1..k -> S] : k \in 0..n}

RECURSIVE SumSeq(_)
SumSeq(s) == IF s = <<>> THEN 0 ELSE Head(s) + SumSeq(Tail(s))

RECURSIVE SumOver(_, _)
SumOver(S, f) ==
    IF S = {} THEN 0
    ELSE LET e == CHOOSE e \in S : TRUE IN f[e] + SumOver(S \ {e}, f)

RECURSIVE ProdOver(_, _)
ProdOver(S, f) ==
    IF S = {} THEN 1
    ELSE LET e == CHOOSE e \in S : TRUE IN f[e] * ProdOver(S \ {e}, f)

MinOf(S) == CHOOSE m \in S : \A e \in S : m <= e
MaxOf(S) == CHOOSE m \in S : \A e \in S : m >= e

(***************************************************************************)
(* Entity model.                                                           *)
(***************************************************************************)
FOOD_TYPES ==
    <<"dairy", "meat", "produce", "grain", "processed", "non-perishables", "hygiene">>

FoodSet == {FOOD_TYPES[n] : n \in 1..Len(FOOD_TYPES)}

\* agency.servedPerWk: a number, or absent / None (has = FALSE)
NoneServed == [has |-> FALSE, val |-> 0]
Served(v) == [has |-> TRUE, val |-> v]

Agency(served, partner) == [servedPerWk |-> served, fbwmPartner |-> partner]

\* Item: a weight in pounds and foodTypeQuantities, pounds per food type
\* (dict.get(foodType, 0.0) of createFoodTypeMatrix is the 0 of other types)
Quantities(q) == [f \in FoodSet |-> IF f \in DOMAIN q THEN q[f] ELSE 0]
ItemWeightless(weight, q) == [weight |-> 0, foodTypeQuantities |-> q]

Item(weight, q) == [weight |-> weight, foodTypeQuantities |-> Quantities(q)]

Donor(partner, items) == [fbwmPartner |-> partner, items |-> items]

Driver(capacity) == [capacity |-> capacity]

(***************************************************************************)
(* calculateAgencyWeights                                                  *)
(***************************************************************************)
\* hasattr(agency, "servedPerWk") and agency.servedPerWk and agency.servedPerWk > 0
IsValidWeightZeroOk(agency) ==
    /\ agency.servedPerWk.has
    /\ agency.servedPerWk.val >= 0

IsValidWeight(agency) ==
    /\ agency.servedPerWk.has
    /\ agency.servedPerWk.val # 0
    /\ agency.servedPerWk.val > 0

\* statistics.median, in half units: sorted data, the middle element or the
\* mean of the two middle ones
MedianLowerMiddle(data) ==
    LET s == SortSeq(data, LAMBDA a, b : a < b)
        n == Len(s)
    IN  2 * s[(n + 1) \div 2]

Median(data) ==
    LET s == SortSeq(data, LAMBDA a, b : a < b)
        n == Len(s)
    IN  IF n % 2 = 1 THEN 2 * s[(n + 1) \div 2]
        ELSE s[n \div 2] + s[n \div 2 + 1]

\* the fallback of line 262, in half units
DefaultMedianWeight == 200

\* the list returned for no agencies at line 237, [100.0], in half units
DefaultWeights == <<200>>

validWeightsOf(ags) ==
    LET valid == SelectSeq(ags, IsValidWeight)
    IN  [n \in 1..Len(valid) |-> valid[n].servedPerWk.val]

medianWeightOf(ags) ==
    IF validWeightsOf(ags) # <<>> THEN Median(validWeightsOf(ags))
    ELSE DefaultMedianWeight

calculateAgencyWeights(ags) ==
    IF ags = <<>> THEN DefaultWeights
    ELSE LET medianWeight == medianWeightOf(ags)
             weights == [n \in 1..Len(ags) |->
                            IF IsValidWeight(ags[n])
                            THEN 2 * ags[n].servedPerWk.val
                            ELSE medianWeight]
         IN  IF weights = <<>> THEN [n \in 1..Len(ags) |-> medianWeight]
             ELSE weights

(***************************************************************************)
(* The adjacency matrix: main's population of it, and a caller's own.      *)
(***************************************************************************)
AgencyIdx == 1..Len(agencies)
DonorIdx == 1..Len(donors)
DriverIdx == 1..Len(drivers)

\* np.zeros((len(donors), len(agencies)))
ZeroAdjacency == [d \in DonorIdx |-> [a \in AgencyIdx |-> 0]]

AdjacencyMatrices == [DonorIdx -> [AgencyIdx -> {0, 1}]]

\* agencies[j].fbwmPartner: readAgencyData never sets the attribute (it sets
\* fbwmType), so reading it raises AttributeError; "missing" stands for that
HasPartnerAttr(agency) == agency.fbwmPartner # "missing"

\* donors[i].fbwmPartner == True and agencies[j].fbwmPartner == "NFB"
PartnerIncompatibleNever(d, a) == FALSE

PartnerIncompatible(d, a) ==
    donors[d].fbwmPartner /\ agencies[a].fbwmPartner = "NFB"

\* the loop reads agencies[j].fbwmPartner only for a partner donor
AdjacencyLoopRaises ==
    \E d \in DonorIdx, a \in AgencyIdx :
        donors[d].fbwmPartner /\ ~HasPartnerAttr(agencies[a])

(***************************************************************************)
(* createDriverFeasibilityMatrix                                           *)
(***************************************************************************)
createDriverFeasibilityMatrixAllTrue(dons, ags, drvs, adj) ==
    [a \in 1..Len(ags) |-> [d \in 1..Len(dons) |-> [k \in 1..Len(drvs) |-> TRUE]]]

createDriverFeasibilityMatrixDonorFirst(dons, ags, drvs, adj) ==
    [d \in 1..Len(dons) |->
        [a \in 1..Len(ags) |->
            [k \in 1..Len(drvs) |-> adj[d][a] = 1]]]

createDriverFeasibilityMatrix(dons, ags, drvs, adj) ==
    [a \in 1..Len(ags) |->
        [d \in 1..Len(dons) |->
            [k \in 1..Len(drvs) |-> adj[d][a] = 1]]]

(***************************************************************************)
(* egalitarianILP: the model it builds                                     *)
(***************************************************************************)
AllTimeSteps == <<0, 1, 2, 3, 4, 6, 7, 8, 9>>

\* the first MaxTimeSteps slots of the horizon of line 46
timeSteps == SubSeq(AllTimeSteps, 1, MaxTimeSteps)

TimeStepSet == {timeSteps[n] : n \in 1..Len(timeSteps)}

ItemIdx(d) == 1..Len(donors[d].items)

\* the keys of x, <<agency, donor, item>>, and of y, <<t, agency, donor, driver>>
ItemKeys == UNION {{<<d, i>> : i \in ItemIdx(d)} : d \in DonorIdx}
XKeys == {<<a, k[1], k[2]>> : a \in AgencyIdx, k \in ItemKeys}
YKeys == (TimeStepSet \X AgencyIdx) \X (DonorIdx \X DriverIdx)
TripOf(yk) == <<yk[1][1], yk[1][2], yk[2][1], yk[2][2]>>
Trips == {TripOf(yk) : yk \in YKeys}

\* createFoodTypeMatrix: qgf[(donorIdx, itemIdx, foodType)]
qgfMatrix(d, i, f) == donors[d].items[i].foodTypeQuantities[f]

\* a binary x variable holds 0 or 10 tenths; y is the set of trips whose
\* indicator is 1
Binary == {0, 10}

\* constraint 1, left side: pounds (in tenths) of every food type in the items of a
totalFoodReceived(a, x) ==
    SumOver(ItemKeys,
            [k \in ItemKeys |->
                SumOver(FoodSet,
                        [f \in FoodSet |-> qgfMatrix(k[1], k[2], f) * x[<<a, k[1], k[2]>>]])])

\* constraint 2, left side
foodTypeReceived(a, f, x) ==
    SumOver(ItemKeys, [k \in ItemKeys |-> qgfMatrix(k[1], k[2], f) * x[<<a, k[1], k[2]>>]])

\* r and rf are rationals with the common denominator 5 * WeightProduct:
\* pounds >= r * weight  reads  tenths * WeightProduct >= rNum * halfWeight
WeightProduct == ProdOver(AgencyIdx, [a \in AgencyIdx |-> agencyWeights[a]])

Constraint1(x, r) ==
    \A a \in AgencyIdx : totalFoodReceived(a, x) * WeightProduct >= r * agencyWeights[a]

Constraint2(x, rf) ==
    \A a \in AgencyIdx : \A f \in FoodSet :
        foodTypeReceived(a, f, x) * WeightProduct >= rf[f] * agencyWeights[a]

\* constraint 3: each item allocated at most once
Constraint3(x) ==
    \A k \in ItemKeys :
        SumOver(AgencyIdx, [a \in AgencyIdx |-> x[<<a, k[1], k[2]>>]]) <= 10

\* constraint 4: each driver does at most one trip per time step
Constraint4(y) ==
    \A t \in TimeStepSet, k \in DriverIdx :
        Cardinality({tr \in y : tr[1] = t /\ tr[4] = k}) <= 1

\* constraint 5: at most one driver per trip per time step
Constraint5(y) ==
    \A t \in TimeStepSet, a \in AgencyIdx, d \in DonorIdx :
        Cardinality({tr \in y : tr[1] = t /\ tr[2] = a /\ tr[3] = d}) <= 1

\* constraint 6: only feasible trips
Constraint6Dropped(y) == TRUE

Constraint6(y) ==
    \A tr \in Trips :
        ~feasibilityMatrix[tr[2]][tr[3]][tr[4]] => tr \notin y

\* constraint 7: items can only be assigned if a trip donor -> agency exists
Constraint7Dropped(x, y) == TRUE

Constraint7(x, y) ==
    \A xk \in XKeys :
        x[xk] <= 10 * Cardinality({tr \in y : tr[2] = xk[1] /\ tr[3] = xk[2]})

ZeroRf == [f \in FoodSet |-> 0]

Feasible(x, y, r, rf) ==
    /\ r >= 0
    /\ \A f \in FoodSet : rf[f] >= 0
    /\ Constraint1(x, r)
    /\ Constraint2(x, rf)
    /\ Constraint3(x)
    /\ Constraint4(y)
    /\ Constraint5(y)
    /\ Constraint6(y)
    /\ Constraint7(x, y)

\* the objective, alphaWeights = 1.0 for every food type
Objective(r, rf) == r + SumOver(FoodSet, rf)

(***************************************************************************)
(* The solver (PuLP with CBC or Gurobi), as far as the code depends on it: *)
(* a status and the values left in the variables.  With status Optimal the *)
(* values are a binary point that satisfies the constraints and maximises  *)
(* the objective.  With any other status the x values are whatever the     *)
(* solver left: nothing at all, or numbers within constraint 3 that need   *)
(* not be integral.                                                        *)
(***************************************************************************)
NoValue == -1

\* the largest r (and rf) that constraints 1 and 2 allow for x
BestR(x) ==
    MinOf({totalFoodReceived(a, x) * (WeightProduct \div agencyWeights[a]) : a \in AgencyIdx})

BestRf(x) ==
    [f \in FoodSet |->
        MinOf({foodTypeReceived(a, f, x) * (WeightProduct \div agencyWeights[a]) :
                  a \in AgencyIdx})]

ObjectiveOf(x) == Objective(BestR(x), BestRf(x))

TripSchedules ==
    {y \in SUBSET Trips : Constraint4(y) /\ Constraint5(y) /\ Constraint6(y)}

BinaryPoints ==
    UNION {{[x |-> x, y |-> y] :
               x \in {xx \in [XKeys -> Binary] : Constraint3(xx) /\ Constraint7(xx, y)}} :
           y \in TripSchedules}

OptimalPoints ==
    LET pts == BinaryPoints
        best == MaxOf({ObjectiveOf(p.x) : p \in pts})
    IN  {p \in pts : ObjectiveOf(p.x) = best}

Leftovers ==
    {[k \in XKeys |-> NoValue]} \cup {x \in [XKeys -> {0, 5, 10}] : Constraint3(x)}

\* plp.LpStatus: with no agency nothing bounds r and the model is unbounded
SolverStatuses ==
    {"Not Solved", "Undefined"} \cup
        (IF agencies = <<>> THEN {"Unbounded"}
         ELSE IF BinaryPoints = {} THEN {"Infeasible"}
         ELSE {"Optimal"})

(***************************************************************************)
(* egalitarianILP: reading the solution back                               *)
(***************************************************************************)
\* var.varValue and var.varValue > 0.5
AllocatedAboveOne(v) == v # NoValue /\ v # 0 /\ v > 10

AllocatedAtHalf(v) == v # NoValue /\ v # 0 /\ v >= 5

Allocated(v) == v # NoValue /\ v # 0 /\ v > 5

\* the keys of one agency in the insertion order of the dict x
RECURSIVE KeySeqFrom(_)
KeySeqFrom(d) ==
    IF d > Len(donors) THEN <<>>
    ELSE [i \in 1..Len(donors[d].items) |-> <<d, i>>] \o KeySeqFrom(d + 1)

ItemKeySeq == KeySeqFrom(1)

ItemsGiven(a, x) ==
    SelectSeq(ItemKeySeq, LAMBDA k : Allocated(x[<<a, k[1], k[2]>>]))

\* allocation is a defaultdict(list): only agencies that got an item are keys
allocationOf(x) ==
    [a \in {b \in AgencyIdx : ItemsGiven(b, x) # <<>>} |-> ItemsGiven(a, x)]

agencyUtilitiesPerWeight(x) == [a \in 1..Len(agencyWeights) |-> 0]

agencyUtilitiesCountingItems(x) == [a \in AgencyIdx |-> Len(ItemsGiven(a, x))]

agencyUtilitiesOf(x) ==
    [a \in AgencyIdx |->
        SumSeq([n \in 1..Len(ItemsGiven(a, x)) |->
                   donors[ItemsGiven(a, x)[n][1]].items[ItemsGiven(a, x)[n][2]].weight])]

EmptyAllocation == <<>>

ZeroUtilities == [a \in AgencyIdx |-> 0]

(***************************************************************************)
(* Input domains.                                                          *)
(***************************************************************************)
\* servedPerWk values of a batch given to calculateAgencyWeights
BatchServed == {NoneServed} \cup {Served(v) : v \in {0, -5, 80, 90, 120}}

\* servedPerWk values of the agencies of an allocation run
RunServed == {NoneServed, Served(50), Served(100)}

PartnerTags == {"missing", "NFB", "FB"}

ItemKinds ==
    { Item(10, [dairy |-> 10]),
      Item(20, [dairy |-> 10, meat |-> 10]) }

DriverKinds == {Driver(50)}

Unset == <<>>

(***************************************************************************)
(* Specification of calculateAgencyWeights on a batch.                     *)
(***************************************************************************)
WeightsInit ==
    /\ pc = "weights_call"
    /\ agencies \in SeqsUpTo({Agency(s, "missing") : s \in BatchServed}, MaxBatch)
    /\ donors = <<>>
    /\ drivers = <<>>
    /\ adjMatrix = <<>>
    /\ agencyWeights = Unset
    /\ feasibilityMatrix = Unset
    /\ status = "none"
    /\ xVal = Unset
    /\ yVal = {}
    /\ rVal = NoValue
    /\ rfVal = Unset
    /\ allocation = EmptyAllocation
    /\ agencyUtilities = Unset
    /\ pool = <<>>
    /\ summary = Unset
    /\ greedyUtilities = Unset

CalcWeights ==
    /\ pc = "weights_call"
    /\ agencyWeights' = calculateAgencyWeights(agencies)
    /\ pc' = "weights_done"
    /\ UNCHANGED <<agencies, donors, drivers, adjMatrix, feasibilityMatrix,
                   status, xVal, yVal, rVal, rfVal, allocation, agencyUtilities>>
    /\ UNCHANGED <<pool, summary, greedyUtilities>>

WeightsNext == CalcWeights

WeightsSpec == WeightsInit /\ [][WeightsNext]_vars

(***************************************************************************)
(* Specification of the feasibility precomputation: the adjacency matrix   *)
(* as main populates it, or as a caller supplies it, and the tensor.       *)
(***************************************************************************)
FeasInit ==
    /\ pc = "main"
    /\ agencies \in SeqsUpTo({Agency(NoneServed, t) : t \in PartnerTags}, MaxAgencies)
    /\ donors \in SeqsUpTo({Donor(b, <<>>) : b \in BOOLEAN}, MaxDonors)
    /\ drivers \in SeqsUpTo(DriverKinds, MaxDrivers)
    /\ adjMatrix = ZeroAdjacency
    /\ agencyWeights = Unset
    /\ feasibilityMatrix = Unset
    /\ status = "none"
    /\ xVal = Unset
    /\ yVal = {}
    /\ rVal = NoValue
    /\ rfVal = Unset
    /\ allocation = EmptyAllocation
    /\ agencyUtilities = Unset
    /\ pool = <<>>
    /\ summary = Unset
    /\ greedyUtilities = Unset

\* main, lines 38-50: an edge at random, never for an incompatible pair
PopulateAdjacency ==
    /\ pc = "main"
    /\ ~AdjacencyLoopRaises
    /\ adjMatrix' \in {m \in AdjacencyMatrices :
                          \A d \in DonorIdx, a \in AgencyIdx :
                              PartnerIncompatible(d, a) => m[d][a] = 0}
    /\ pc' = "call"
    /\ UNCHANGED <<agencies, donors, drivers, agencyWeights, feasibilityMatrix,
                   status, xVal, yVal, rVal, rfVal, allocation, agencyUtilities>>
    /\ UNCHANGED <<pool, summary, greedyUtilities>>

\* main, line 42: AttributeError on an agency without fbwmPartner
PopulateAdjacencyRaises ==
    /\ pc = "main"
    /\ AdjacencyLoopRaises
    /\ pc' = "raised"
    /\ UNCHANGED <<agencies, donors, drivers, adjMatrix, agencyWeights, feasibilityMatrix,
                   status, xVal, yVal, rVal, rfVal, allocation, agencyUtilities>>
    /\ UNCHANGED <<pool, summary, greedyUtilities>>

\* a caller of egalitarianILP other than main passes its own matrix
SupplyAdjacency ==
    /\ pc = "main"
    /\ adjMatrix' \in AdjacencyMatrices
    /\ pc' = "call"
    /\ UNCHANGED <<agencies, donors, drivers, agencyWeights, feasibilityMatrix,
                   status, xVal, yVal, rVal, rfVal, allocation, agencyUtilities>>
    /\ UNCHANGED <<pool, summary, greedyUtilities>>

CreateFeasibility ==
    /\ pc = "call"
    /\ feasibilityMatrix' = createDriverFeasibilityMatrix(donors, agencies, drivers, adjMatrix)
    /\ pc' = "feasibility_done"
    /\ UNCHANGED <<agencies, donors, drivers, adjMatrix, agencyWeights,
                   status, xVal, yVal, rVal, rfVal, allocation, agencyUtilities>>
    /\ UNCHANGED <<pool, summary, greedyUtilities>>

FeasNext ==
    \/ PopulateAdjacency
    \/ PopulateAdjacencyRaises
    \/ SupplyAdjacency
    \/ CreateFeasibility

FeasSpec == FeasInit /\ [][FeasNext]_vars

(***************************************************************************)
(* Specification of egalitarianILP(donors, agencies, adjMatrix, drivers).  *)
(***************************************************************************)
Init ==
    /\ pc = "call"
    /\ agencies \in SeqsUpTo({Agency(s, "missing") : s \in RunServed}, MaxAgencies)
    /\ donors \in SeqsUpTo({Donor(FALSE, its) : its \in SeqsUpTo(ItemKinds, MaxItems)},
                           MaxDonors)
    /\ drivers \in SeqsUpTo(DriverKinds, MaxDrivers)
    /\ adjMatrix \in AdjacencyMatrices
    /\ agencyWeights = Unset
    /\ feasibilityMatrix = Unset
    /\ status = "none"
    /\ xVal = Unset
    /\ yVal = {}
    /\ rVal = NoValue
    /\ rfVal = Unset
    /\ allocation = EmptyAllocation
    /\ agencyUtilities = Unset
    /\ pool = <<>>
    /\ summary = Unset
    /\ greedyUtilities = Unset

\* lines 34-188: the weights, the feasibility tensor, the variables and constraints
BuildModelStoringWeights ==
    /\ pc = "call"
    /\ agencyWeights' = calculateAgencyWeights(agencies)
    /\ agencies' = [a \in AgencyIdx |->
                       [agencies[a] EXCEPT
                           !.servedPerWk = Served(calculateAgencyWeights(agencies)[a] \div 2)]]
    /\ feasibilityMatrix' = createDriverFeasibilityMatrix(donors, agencies, drivers, adjMatrix)
    /\ pc' = "built"
    /\ UNCHANGED <<donors, drivers, adjMatrix,
                   status, xVal, yVal, rVal, rfVal, allocation, agencyUtilities>>
    /\ UNCHANGED <<pool, summary, greedyUtilities>>

BuildModel ==
    /\ pc = "call"
    /\ agencyWeights' = calculateAgencyWeights(agencies)
    /\ feasibilityMatrix' = createDriverFeasibilityMatrix(donors, agencies, drivers, adjMatrix)
    /\ pc' = "built"
    /\ UNCHANGED <<agencies, donors, drivers, adjMatrix,
                   status, xVal, yVal, rVal, rfVal, allocation, agencyUtilities>>
    /\ UNCHANGED <<pool, summary, greedyUtilities>>

\* line 198: model.solve(solver)
Solve ==
    /\ pc = "built"
    /\ \E st \in SolverStatuses :
        /\ status' = st
        /\ IF st = "Optimal"
           THEN \E p \in OptimalPoints :
                   /\ Feasible(p.x, p.y, BestR(p.x), BestRf(p.x))
                   /\ xVal' = p.x
                   /\ yVal' = p.y
                   /\ rVal' = BestR(p.x)
                   /\ rfVal' = BestRf(p.x)
           ELSE \E x \in Leftovers :
                   /\ xVal' = x
                   /\ yVal' = {}
                   /\ rVal' = NoValue
                   /\ rfVal' = Unset
    /\ pc' = "solved"
    /\ UNCHANGED <<agencies, donors, drivers, adjMatrix, agencyWeights, feasibilityMatrix,
                   allocation, agencyUtilities>>
    /\ UNCHANGED <<pool, summary, greedyUtilities>>

\* lines 207-212: the two statuses that return early
ReturnEmpty ==
    /\ pc = "solved"
    /\ status \in {"Not Solved", "Infeasible"}
    /\ allocation' = EmptyAllocation
    /\ agencyUtilities' = ZeroUtilities
    /\ pc' = "returned"
    /\ UNCHANGED <<agencies, donors, drivers, adjMatrix, agencyWeights, feasibilityMatrix,
                   status, xVal, yVal, rVal, rfVal>>
    /\ UNCHANGED <<pool, summary, greedyUtilities>>

\* lines 216-227: every other status, Optimal or not, reads the x values back
ExtractSolution ==
    /\ pc = "solved"
    /\ status \notin {"Not Solved", "Infeasible"}
    /\ allocation' = allocationOf(xVal)
    /\ agencyUtilities' = agencyUtilitiesOf(xVal)
    /\ pc' = "returned"
    /\ UNCHANGED <<agencies, donors, drivers, adjMatrix, agencyWeights, feasibilityMatrix,
                   status, xVal, yVal, rVal, rfVal>>
    /\ UNCHANGED <<pool, summary, greedyUtilities>>

Next ==
    \/ BuildModel
    \/ Solve
    \/ ReturnEmpty
    \/ ExtractSolution

Spec == Init /\ [][Next]_vars

(***************************************************************************)
(* Properties of egalitarianILP (checked under Spec).                      *)
(***************************************************************************)
Pairs(a) == {allocation[a][n] : n \in 1..Len(allocation[a])}

NoDuplicates(s) == \A m, n \in 1..Len(s) : m # n => s[m] # s[n]

\* agency a has no feasible donor: its adjacency column is all zero
Starved(a) == \A d \in DonorIdx : adjMatrix[d][a] # 1

ZeroX == [k \in XKeys |-> 0]

\* C1: in every returned allocation each (donor, item) pair is listed under at
\* most one agency, and at most once in that agency's list; the solver values
\* are any values within constraint 3, read back at the "> 0.5" threshold.
C1_ItemInAtMostOneList ==
    pc = "returned" =>
        /\ \A a \in DOMAIN allocation : NoDuplicates(allocation[a])
        /\ \A a, b \in DOMAIN allocation : a # b => Pairs(a) \cap Pairs(b) = {}

\* a return where the solver left one item at 0.5 for two agencies (within
\* constraint 3) and another item was allocated
C1_Witness ==
    /\ pc = "returned"
    /\ Constraint3(xVal)
    /\ \E k \in ItemKeys : \A a \in AgencyIdx : xVal[<<a, k[1], k[2]>>] = 5
    /\ Len(agencies) = 2
    /\ allocation # EmptyAllocation

\* C2: on the optimal path every item listed under agency a comes from a donor
\* d with adjMatrix[d][a] = 1.
C2_AllocatedPairsAreAdjacent ==
    (pc = "returned" /\ status = "Optimal") =>
        \A a \in DOMAIN allocation : \A k \in Pairs(a) : adjMatrix[k[1]][a] = 1

\* an optimal return that allocates an item although some pair is not adjacent
C2_Witness ==
    /\ pc = "returned"
    /\ status = "Optimal"
    /\ allocation # EmptyAllocation
    /\ \E d \in DonorIdx, a \in AgencyIdx : adjMatrix[d][a] = 0

\* C4: with any status other than Optimal the result is the empty allocation
\* and a vector of zeros, whatever the solver left in the x variables.
C4_NonOptimalReturnsEmpty ==
    (pc = "returned" /\ status # "Optimal") =>
        /\ allocation = EmptyAllocation
        /\ agencyUtilities = ZeroUtilities

\* C5: the returned value tells the solve status: a run that did not end
\* Optimal never returns what an Optimal run on the same input may return.
C5_ResultTellsStatus ==
    (pc = "returned" /\ status # "Optimal" /\ agencies # <<>>) =>
        ~ \E p \in OptimalPoints :
              /\ allocationOf(p.x) = allocation
              /\ agencyUtilitiesOf(p.x) = agencyUtilities

\* C9: the all-zero point satisfies every constraint, so the solver never
\* reports Infeasible and can report Optimal, and in an optimal result an
\* agency whose adjacency column is all zero has utility 0.
C9_ZeroPointFeasible ==
    /\ pc \in {"built", "solved", "returned"} => Feasible(ZeroX, {}, 0, ZeroRf)
    /\ (pc = "built" /\ agencies # <<>>) => "Optimal" \in SolverStatuses
    /\ status # "Infeasible"
    /\ (pc = "returned" /\ status = "Optimal") =>
           \A a \in AgencyIdx : Starved(a) => agencyUtilities[a] = 0

\* an optimal return with a starved agency beside an agency that was served
C9_Witness ==
    /\ pc = "returned"
    /\ status = "Optimal"
    /\ \E a \in AgencyIdx : Starved(a)
    /\ allocation # EmptyAllocation

\* the minimum over the agencies that have a feasible donor of pounds / weight,
\* on the common denominator WeightProduct
RemainingMin(u) ==
    MinOf({u[a] * (WeightProduct \div agencyWeights[a]) : a \in {b \in AgencyIdx : ~Starved(b)}})

\* C10: when some agency is starved, the optimal result still attains the
\* largest achievable minimum of pounds / weight over the other agencies.
C10_RemainingAgenciesServed ==
    ( /\ pc = "returned"
      /\ status = "Optimal"
      /\ \E a \in AgencyIdx : Starved(a)
      /\ \E a \in AgencyIdx : ~Starved(a) ) =>
        RemainingMin(agencyUtilities) =
            MaxOf({RemainingMin(agencyUtilitiesOf(p.x)) : p \in BinaryPoints})

(***************************************************************************)
(* Properties of createDriverFeasibilityMatrix (checked under FeasSpec).   *)
(***************************************************************************)
\* C3: the tensor is false for every driver at a partner-only donor and a
\* non-partner agency, even when the adjacency entry of the pair is set.
C3_PartnershipOverridesAdjacency ==
    pc = "feasibility_done" =>
        \A a \in AgencyIdx, d \in DonorIdx, k \in DriverIdx :
            PartnerIncompatible(d, a) => ~feasibilityMatrix[a][d][k]

(***************************************************************************)
(* Properties of calculateAgencyWeights (checked under WeightsSpec).       *)
(***************************************************************************)
ValidIdx ==
    {n \in 1..Len(agencies) : agencies[n].servedPerWk.has /\ agencies[n].servedPerWk.val > 0}

ServedAt(n) == agencies[n].servedPerWk.val

\* the k-th smallest of the valid servedPerWk values, by counting
KthSmallestValid(k) ==
    MinOf({ServedAt(n) : n \in {m \in ValidIdx :
              Cardinality({j \in ValidIdx : ServedAt(j) <= ServedAt(m)}) >= k}})

\* twice the median of the valid values, or twice the constant 100
ExpectedFallback ==
    IF ValidIdx = {} THEN 2 * 100
    ELSE LET n == Cardinality(ValidIdx)
         IN  KthSmallestValid((n + 1) \div 2) + KthSmallestValid(n \div 2 + 1)

\* C6: entry n of the weight vector is servedPerWk of agency n when that is
\* present and > 0, else the median of the valid values of the batch, or 100
\* when the batch has no valid value (entries in half units).
C6_WeightOrMedian ==
    pc = "weights_done" =>
        \A n \in 1..Len(agencies) :
            agencyWeights[n] = IF n \in ValidIdx THEN 2 * ServedAt(n) ELSE ExpectedFallback

\* the batch [120, None, 80] yields [120, 100, 80]
C6_Witness ==
    /\ pc = "weights_done"
    /\ agencies = <<Agency(Served(120), "missing"), Agency(NoneServed, "missing"),
                    Agency(Served(80), "missing")>>
    /\ agencyWeights = <<240, 200, 160>>

\* C7: every entry of the returned weight vector is strictly positive.
C7_WeightsPositive ==
    pc = "weights_done" => \A n \in 1..Len(agencyWeights) : agencyWeights[n] > 0

\* a batch with a zero, a negative and a missing servedPerWk
C7_Witness ==
    /\ pc = "weights_done"
    /\ \E n \in 1..Len(agencies) : agencies[n].servedPerWk = Served(0)
    /\ \E n \in 1..Len(agencies) : agencies[n].servedPerWk = Served(-5)
    /\ \E n \in 1..Len(agencies) : agencies[n].servedPerWk = NoneServed
    /\ Len(agencyWeights) = 3

\* C8: the weight vector has as many entries as there are agencies, for every
\* batch, the empty one included.
C8_OneWeightPerAgency ==
    pc = "weights_done" => Len(agencyWeights) = Len(agencies)

(***************************************************************************)
(* Specification of egalitarianILP on inputs with one donor that offers    *)
(* three items, two agencies, one driver and full adjacency: the two trips *)
(* the horizon allows serve every assignment of the items.                 *)
(***************************************************************************)
ThreeItemKinds ==
    { Item(15, [produce |-> 15]),
      Item(10, [dairy |-> 10]) }

FullAdjacency == [d \in DonorIdx |-> [a \in AgencyIdx |-> 1]]

ThreeItemInit ==
    /\ pc = "call"
    /\ agencies \in [1..2 -> {Agency(Served(50), "missing"), Agency(Served(100), "missing")}]
    /\ donors \in {<<Donor(FALSE, its)>> : its \in [1..3 -> ThreeItemKinds]}
    /\ drivers = <<Driver(50)>>
    /\ adjMatrix = FullAdjacency
    /\ agencyWeights = Unset
    /\ feasibilityMatrix = Unset
    /\ status = "none"
    /\ xVal = Unset
    /\ yVal = {}
    /\ rVal = NoValue
    /\ rfVal = Unset
    /\ allocation = EmptyAllocation
    /\ agencyUtilities = Unset
    /\ pool = <<>>
    /\ summary = Unset
    /\ greedyUtilities = Unset

ThreeItemSpec == ThreeItemInit /\ [][Next]_vars

\* the minimum over the agencies of pounds received / fairness weight, on the
\* common denominator WeightProduct
MinRatio(u) ==
    MinOf({u[a] * (WeightProduct \div agencyWeights[a]) : a \in AgencyIdx})

\* C11: the optimal result maximises the minimum over agencies of pounds
\* received / fairness weight: no point within constraints 3-7 has a larger
\* minimum ratio.
C11_MaxMinRatio ==
    (pc = "returned" /\ status = "Optimal") =>
        MinRatio(agencyUtilities) =
            MaxOf({MinRatio(agencyUtilitiesOf(p.x)) : p \in BinaryPoints})

(***************************************************************************)
(* leximinGreedy(donors, agencies, adjMatrix): main imports it from algos  *)
(* and calls it (main.py 12, 78, 99), but no file of the repository        *)
(* defines it.  It is modelled from section 4.3 of the specification: the  *)
(* state is the utility vector, the allocation and the pool of pairs not   *)
(* yet assigned; it reads the weight precomputation like the ILP path.     *)
(***************************************************************************)
\* feasible per the adjacency / partnership rule
greedyFeasible(d, a) == adjMatrix[d][a] = 1 /\ ~PartnerIncompatible(d, a)

weightOfPair(k) == donors[k[1]].items[k[2]].weight

\* utility / weight of a is below that of b (the weights are positive)
ratioBelow(u, a, b) == u[a] * agencyWeights[b] < u[b] * agencyWeights[a]

\* step 1: scan the agencies in order, keep the first of minimum ratio among
\* those with a positive weight (0: none)
RECURSIVE scanAgencies(_, _, _)
scanAgencies(u, n, best) ==
    IF n > Len(agencies) THEN best
    ELSE IF agencyWeights[n] > 0 /\ (best = 0 \/ ratioBelow(u, n, best))
         THEN scanAgencies(u, n + 1, n)
         ELSE scanAgencies(u, n + 1, best)

RECURSIVE scanAgenciesLastOfTies(_, _, _)
scanAgenciesLastOfTies(u, n, best) ==
    IF n > Len(agencies) THEN best
    ELSE IF agencyWeights[n] > 0 /\ (best = 0 \/ ~ratioBelow(u, best, n))
         THEN scanAgenciesLastOfTies(u, n + 1, n)
         ELSE scanAgenciesLastOfTies(u, n + 1, best)

neediestAgencyLastOfTies(u) == scanAgenciesLastOfTies(u, 1, 0)

neediestAgency(u) == scanAgencies(u, 1, 0)

\* step 2: scan the pool in order, keep the first of maximum weight among the
\* pairs feasible for agency a (0: none); the result is a position of the pool
RECURSIVE scanPool(_, _, _, _)
scanPool(p, a, n, best) ==
    IF n > Len(p) THEN best
    ELSE IF greedyFeasible(p[n][1], a)
            /\ (best = 0 \/ weightOfPair(p[n]) > weightOfPair(p[best]))
         THEN scanPool(p, a, n + 1, n)
         ELSE scanPool(p, a, n + 1, best)

RECURSIVE scanPoolLastOfTies(_, _, _, _)
scanPoolLastOfTies(p, a, n, best) ==
    IF n > Len(p) THEN best
    ELSE IF greedyFeasible(p[n][1], a)
            /\ (best = 0 \/ weightOfPair(p[n]) >= weightOfPair(p[best]))
         THEN scanPoolLastOfTies(p, a, n + 1, n)
         ELSE scanPoolLastOfTies(p, a, n + 1, best)

heaviestFeasibleLastOfTies(p, a) == scanPoolLastOfTies(p, a, 1, 0)

heaviestFeasible(p, a) == scanPool(p, a, 1, 0)

\* the agency served in this round, trying the next agencies in order of need
\* when the neediest has no feasible pair (0: nobody can be served)
RECURSIVE scanServable(_, _, _, _)
scanServable(u, p, n, best) ==
    IF n > Len(agencies) THEN best
    ELSE IF agencyWeights[n] > 0 /\ heaviestFeasible(p, n) # 0
            /\ (best = 0 \/ ratioBelow(u, n, best))
         THEN scanServable(u, p, n + 1, n)
         ELSE scanServable(u, p, n + 1, best)

selectedAgencyTryingNext(u, p) == scanServable(u, p, 1, 0)

\* step 3: only the neediest agency is tried
selectedAgency(u, p) == neediestAgency(u)

removeAtKeepsPair(p, n) == p

removeAt(p, n) == SubSeq(p, 1, n - 1) \o SubSeq(p, n + 1, Len(p))

addPair(alloc, a, k) ==
    IF a \in DOMAIN alloc THEN [alloc EXCEPT ![a] = Append(@, k)]
    ELSE [b \in DOMAIN alloc \cup {a} |-> IF b = a THEN <<k>> ELSE alloc[b]]

addUtility(u, a, k) == [u EXCEPT ![a] = @ + weightOfPair(k)]

\* servedPerWk values and items of a greedy run
GreedyServed == {Served(50), Served(100)}

MaxPoolItems == 2

GreedyInit ==
    /\ pc = "greedy_call"
    /\ agencies \in SeqsUpTo({Agency(s, t) : s \in GreedyServed, t \in {"NFB", "FB"}},
                             MaxAgencies)
    /\ donors \in SeqsUpTo({Donor(b, its) : b \in BOOLEAN,
                                            its \in SeqsUpTo(ItemKinds, MaxPoolItems)},
                           MaxDonors)
    /\ drivers = <<>>
    /\ adjMatrix \in AdjacencyMatrices
    /\ agencyWeights = Unset
    /\ feasibilityMatrix = Unset
    /\ status = "none"
    /\ xVal = Unset
    /\ yVal = {}
    /\ rVal = NoValue
    /\ rfVal = Unset
    /\ allocation = EmptyAllocation
    /\ agencyUtilities = Unset
    /\ pool = <<>>
    /\ summary = Unset
    /\ greedyUtilities = Unset

\* the initial state of the run: zero utilities, empty allocation, full pool
GreedyStart ==
    /\ pc = "greedy_call"
    /\ agencyWeights' = calculateAgencyWeights(agencies)
    /\ agencyUtilities' = ZeroUtilities
    /\ allocation' = EmptyAllocation
    /\ pool' = ItemKeySeq
    /\ pc' = "greedy_loop"
    /\ UNCHANGED <<agencies, donors, drivers, adjMatrix, feasibilityMatrix,
                   status, xVal, yVal, rVal, rfVal, summary,
                   greedyUtilities>>

\* one round that finds a pair: step 4
GreedyAssign ==
    /\ pc = "greedy_loop"
    /\ pool # <<>>
    /\ LET a == selectedAgency(agencyUtilities, pool)
       IN  /\ a # 0
           /\ heaviestFeasible(pool, a) # 0
           /\ LET n == heaviestFeasible(pool, a)
              IN  /\ pool' = removeAt(pool, n)
                  /\ allocation' = addPair(allocation, a, pool[n])
                  /\ agencyUtilities' = addUtility(agencyUtilities, a, pool[n])
    /\ pc' = "greedy_loop"
    /\ UNCHANGED <<agencies, donors, drivers, adjMatrix, agencyWeights, feasibilityMatrix,
                   status, xVal, yVal, rVal, rfVal, summary,
                   greedyUtilities>>

\* the end of the loop: the pool is empty, or no agency can be selected, or
\* the selected agency has no feasible pair
\* a loop that goes round again where it should end
GreedyHaltSpins ==
    /\ pc = "greedy_loop"
    /\ \/ pool = <<>>
       \/ selectedAgency(agencyUtilities, pool) = 0
       \/ /\ selectedAgency(agencyUtilities, pool) # 0
          /\ heaviestFeasible(pool, selectedAgency(agencyUtilities, pool)) = 0
    /\ UNCHANGED vars

GreedyHalt ==
    /\ pc = "greedy_loop"
    /\ \/ pool = <<>>
       \/ selectedAgency(agencyUtilities, pool) = 0
       \/ /\ selectedAgency(agencyUtilities, pool) # 0
          /\ heaviestFeasible(pool, selectedAgency(agencyUtilities, pool)) = 0
    /\ pc' = "greedy_done"
    /\ UNCHANGED <<agencies, donors, drivers, adjMatrix, agencyWeights, feasibilityMatrix,
                   status, xVal, yVal, rVal, rfVal, allocation, agencyUtilities,
                   pool, summary, greedyUtilities>>

GreedyNext ==
    \/ GreedyStart
    \/ GreedyAssign
    \/ GreedyHalt

GreedySpec == GreedyInit /\ [][GreedyNext]_vars

\* the run is a sequential loop: it goes on while a step is possible
GreedyLiveSpec == GreedyInit /\ [][GreedyNext]_vars /\ WF_vars(GreedyNext)

(***************************************************************************)
(* Claims about leximinGreedy.                                             *)
(***************************************************************************)
GreedyRunning == pc \in {"greedy_loop", "greedy_done"}

PoolPairs == {pool[n] : n \in 1..Len(pool)}

\* C12: in every state of a greedy run and in the allocation it returns, each
\* (donor, item) pair is in at most one agency's list, once, and no pair is in
\* both the pool and the allocation.
C12_GreedyPairsDisjoint ==
    GreedyRunning =>
        /\ \A a \in DOMAIN allocation : NoDuplicates(allocation[a])
        /\ \A a, b \in DOMAIN allocation : a # b => Pairs(a) \cap Pairs(b) = {}
        /\ \A a \in DOMAIN allocation : Pairs(a) \cap PoolPairs = {}
        /\ NoDuplicates(pool)

\* a finished run that served two agencies and left a pair in the pool
C12_Witness ==
    /\ pc = "greedy_done"
    /\ DOMAIN allocation = {1, 2}
    /\ Len(allocation[1]) = 2
    /\ pool # <<>>

\* C13: every pair a greedy run has assigned is feasible for its agency: the
\* adjacency entry of (donor, agency) is set and the donor is not a
\* partner-only donor paired with a non-partner agency.
C13_GreedyPairsFeasible ==
    GreedyRunning =>
        \A a \in DOMAIN allocation : \A k \in Pairs(a) :
            /\ adjMatrix[k[1]][a] = 1
            /\ ~(donors[k[1]].fbwmPartner /\ agencies[a].fbwmPartner = "NFB")

\* a finished run that assigned a pair while the pair of a partner donor and an
\* adjacent non-partner agency stayed in the pool
C13_Witness ==
    /\ pc = "greedy_done"
    /\ allocation # EmptyAllocation
    /\ \E k \in PoolPairs : \E a \in AgencyIdx :
           /\ adjMatrix[k[1]][a] = 1
           /\ donors[k[1]].fbwmPartner
           /\ agencies[a].fbwmPartner = "NFB"

\* the agency whose list the step has extended
Grew(a) ==
    /\ a \in DOMAIN allocation'
    /\ a \in DOMAIN allocation => Len(allocation'[a]) > Len(allocation[a])

\* C14: an assignment step makes the utility-per-weight ratio of the agency it
\* serves strictly larger and leaves the utility and the ratio of every other
\* agency as they were.
C14_AssignRaisesOnlySelected ==
    [][(pc = "greedy_loop" /\ pool' # pool) =>
          \E a \in AgencyIdx :
              /\ Grew(a)
              /\ agencyUtilities'[a] * agencyWeights[a]
                     > agencyUtilities[a] * agencyWeights'[a]
              /\ \A b \in AgencyIdx \ {a} :
                     /\ ~Grew(b)
                     /\ agencyUtilities'[b] = agencyUtilities[b]
                     /\ agencyUtilities'[b] * agencyWeights[b]
                            = agencyUtilities[b] * agencyWeights'[b]]_vars

\* a state after two assignment steps that served different agencies
C14_Witness ==
    /\ pc = "greedy_loop"
    /\ Len(agencies) = 2
    /\ agencyUtilities[1] > 0
    /\ agencyUtilities[2] > 0

\* the scenario of the specification: D1 offers two items of 10 lb, D2 one of
\* 20 lb, the agencies serve 100 and 50, nobody is a partner-only donor
ScenarioInput ==
    /\ Len(agencies) = 2
    /\ agencies[1].servedPerWk = Served(100)
    /\ agencies[2].servedPerWk = Served(50)
    /\ Len(donors) = 2
    /\ ~donors[1].fbwmPartner
    /\ ~donors[2].fbwmPartner
    /\ [n \in 1..Len(donors[1].items) |-> donors[1].items[n].weight] = <<10, 10>>
    /\ [n \in 1..Len(donors[2].items) |-> donors[2].items[n].weight] = <<20>>

NoInfeasiblePair ==
    \A d \in DonorIdx, a \in AgencyIdx :
        /\ adjMatrix[d][a] = 1
        /\ ~(donors[d].fbwmPartner /\ agencies[a].fbwmPartner = "NFB")

\* C15: with every pair feasible and at least one agency a greedy run ends
\* with an empty pool; in the scenario the first agency gets the 20 lb item,
\* then the second a 10 lb item, then the first the last 10 lb item, and the
\* ratios end at 0.3 and 0.2.
C15_FullAdjacencyEmptiesPool ==
    (GreedyRunning /\ NoInfeasiblePair /\ agencies # <<>>) =>
        /\ pc = "greedy_done" => pool = <<>>
        /\ (ScenarioInput /\ Len(pool) = 2) =>
               allocation = [a \in {1} |-> <<<<2, 1>>>>]
        /\ (ScenarioInput /\ Len(pool) = 1) =>
               allocation = <<<< <<2, 1>> >>, << <<1, 1>> >>>>
        /\ (ScenarioInput /\ pool = <<>>) =>
               /\ allocation = <<<< <<2, 1>>, <<1, 2>> >>, << <<1, 1>> >>>>
               /\ agencyUtilities = <<30, 10>>
               /\ 20 * agencyUtilities[1] = 3 * agencyWeights[1]
               /\ 20 * agencyUtilities[2] = 2 * agencyWeights[2]

\* the end of the scenario run
C15_Witness ==
    /\ pc = "greedy_done"
    /\ ScenarioInput
    /\ NoInfeasiblePair
    /\ pool = <<>>

(***************************************************************************)
(* Further claims about egalitarianILP.                                    *)
(***************************************************************************)
\* no agencies, or no donors, or donors that offer no items
Degenerate == agencies = <<>> \/ \A d \in DonorIdx : donors[d].items = <<>>

\* C16: on degenerate input egalitarianILP goes on to its return from every
\* state of the run, and returns the empty allocation and one zero per agency,
\* whatever the solver reports; the result is a function of the input.
C16_DegenerateReturnsEmpty ==
    Degenerate =>
        /\ pc # "returned" => ENABLED Next
        /\ pc = "returned" =>
               /\ allocation = <<>>
               /\ agencyUtilities = [a \in 1..Len(agencies) |-> 0]

\* a return of a run without agencies whose donors offer items
C16_Witness ==
    /\ pc = "returned"
    /\ agencies = <<>>
    /\ \E d \in DonorIdx : donors[d].items # <<>>
    /\ status = "Unbounded"

(***************************************************************************)
(* printAllocationSummary(allocation, agencies, donors, agencyUtilities)   *)
(* (algos.py 362-434).  What it prints is kept in summary; per-person      *)
(* values are in hundredths of a pound, the average is kept as the sum and *)
(* the count of line 426.                                                  *)
(***************************************************************************)
SummaryServed == {NoneServed, Served(0), Served(50), Served(100)}

\* an allocator's result on these donors and agencies: who got which item
\* (0: nobody), as the dictionary and the utility vector of the return
allocationBy(g) ==
    [a \in {g[k] : k \in ItemKeys} \ {0} |-> SelectSeq(ItemKeySeq, LAMBDA k : g[k] = a)]

utilitiesBy(g) ==
    [a \in AgencyIdx |->
        SumOver({k \in ItemKeys : g[k] = a},
                [k \in ItemKeys |-> donors[k[1]].items[k[2]].weight])]

\* lines 371-377: "agency.servedPerWk > 0" is evaluated for every agency with
\* a non-empty list; None > 0 raises TypeError
SummaryRaises ==
    \E a \in DOMAIN allocation :
        Len(allocation[a]) > 0 /\ ~agencies[a].servedPerWk.has

\* lines 375-377
utilityPerPerson(a) ==
    IF agencies[a].servedPerWk.val > 0
    THEN (100 * agencyUtilities[a]) \div agencies[a].servedPerWk.val
    ELSE 0

\* line 419: servedPerWk and servedPerWk > 0
metricAgencies ==
    {a \in AgencyIdx : agencies[a].servedPerWk.has /\ agencies[a].servedPerWk.val > 0}

\* lines 420-423
metricValue(a) == (100 * agencyUtilities[a]) \div agencies[a].servedPerWk.val

\* lines 425-434: printed only for a non-empty list
fairnessMetrics ==
    IF metricAgencies = {} THEN <<>>
    ELSE LET vals == {metricValue(a) : a \in metricAgencies}
         IN  [minimum |-> MinOf(vals),
              maximum |-> MaxOf(vals),
              sum     |-> SumOver(metricAgencies, [a \in metricAgencies |-> metricValue(a)]),
              count   |-> Cardinality(metricAgencies),
              range   |-> MaxOf(vals) - MinOf(vals)]

SummaryInit ==
    /\ pc = "summary_call"
    /\ agencies \in SeqsUpTo({Agency(s, "missing") : s \in SummaryServed}, MaxAgencies)
    /\ donors \in SeqsUpTo({Donor(FALSE, its) : its \in SeqsUpTo(ItemKinds, MaxItems)},
                           MaxDonors)
    /\ \E g \in [ItemKeys -> 0..Len(agencies)] :
           /\ allocation = allocationBy(g)
           /\ agencyUtilities = utilitiesBy(g)
    /\ drivers = <<>>
    /\ adjMatrix = ZeroAdjacency
    /\ agencyWeights = Unset
    /\ feasibilityMatrix = Unset
    /\ status = "none"
    /\ xVal = Unset
    /\ yVal = {}
    /\ rVal = NoValue
    /\ rfVal = Unset
    /\ pool = <<>>
    /\ summary = Unset
    /\ greedyUtilities = Unset

PrintSummary ==
    /\ pc = "summary_call"
    /\ ~SummaryRaises
    /\ summary' = [perPerson |-> [a \in DOMAIN allocation |-> utilityPerPerson(a)],
                   allocatedAgencies |-> Cardinality(DOMAIN allocation),
                   totalAllocated |-> SumOver(DOMAIN allocation, agencyUtilities),
                   metrics |-> fairnessMetrics]
    /\ pc' = "summary_done"
    /\ UNCHANGED <<agencies, donors, drivers, adjMatrix, agencyWeights, feasibilityMatrix,
                   status, xVal, yVal, rVal, rfVal, allocation, agencyUtilities, pool,
                   greedyUtilities>>

PrintSummaryRaises ==
    /\ pc = "summary_call"
    /\ SummaryRaises
    /\ pc' = "summary_raised"
    /\ UNCHANGED <<agencies, donors, drivers, adjMatrix, agencyWeights, feasibilityMatrix,
                   status, xVal, yVal, rVal, rfVal, allocation, agencyUtilities, pool,
                   summary, greedyUtilities>>

SummaryNext ==
    \/ PrintSummary
    \/ PrintSummaryRaises

SummarySpec == SummaryInit /\ [][SummaryNext]_vars

\* C17: printAllocationSummary completes for every result of an allocator,
\* the empty allocation and agencies with servedPerWk zero or missing
\* included: such an agency reports 0 per person and is not among the agencies
\* of the minimum / maximum / average / range.
C17_SummaryCompletes ==
    /\ pc # "summary_raised"
    /\ pc = "summary_done" =>
           /\ \A a \in DOMAIN allocation :
                  (~agencies[a].servedPerWk.has \/ agencies[a].servedPerWk.val = 0)
                      => summary.perPerson[a] = 0
           /\ summary.metrics # <<>> =>
                  summary.metrics.count =
                      Cardinality({a \in AgencyIdx :
                                      /\ agencies[a].servedPerWk.has
                                      /\ agencies[a].servedPerWk.val # 0})

\* C18: no step of a run of egalitarianILP, its calls to calculateAgencyWeights,
\* createFoodTypeMatrix and createDriverFeasibilityMatrix included, changes the
\* donors, their items, the agencies, the drivers or the adjacency matrix.
C18_InputsUnchanged ==
    [][/\ agencies' = agencies
       /\ donors' = donors
       /\ drivers' = drivers
       /\ adjMatrix' = adjMatrix]_vars

\* a finished run that allocated an item and computed a fallback weight for an
\* agency whose servedPerWk is still missing
C18_Witness ==
    /\ pc = "returned"
    /\ allocation # EmptyAllocation
    /\ \E a \in AgencyIdx :
           /\ agencies[a].servedPerWk = NoneServed
           /\ agencyWeights[a] > 0

\* pair k may go to agency a: adjacent, and not a partner-only donor with a
\* non-partner agency
MayServe(k, a) ==
    /\ adjMatrix[k[1]][a] = 1
    /\ ~(donors[k[1]].fbwmPartner /\ agencies[a].fbwmPartner = "NFB")

PoundsOf(k) == donors[k[1]].items[k[2]].weight

\* C19: every round serves the agency of minimum utility / weight, the first
\* in order among ties, with the heaviest pool pair feasible for it, the first
\* in pool order among equally heavy ones.
C19_NeediestGetsHeaviest ==
    [][(pc = "greedy_loop" /\ pool' # pool) =>
          \E a \in AgencyIdx : \E n \in 1..Len(pool) :
              /\ Grew(a)
              /\ allocation'[a][Len(allocation'[a])] = pool[n]
              /\ pool' = [m \in 1..(Len(pool) - 1) |-> IF m < n THEN pool[m] ELSE pool[m + 1]]
              /\ \A b \in AgencyIdx :
                     /\ agencyUtilities[a] * agencyWeights[b]
                            <= agencyUtilities[b] * agencyWeights[a]
                     /\ b < a => agencyUtilities[a] * agencyWeights[b]
                                     < agencyUtilities[b] * agencyWeights[a]
              /\ MayServe(pool[n], a)
              /\ \A m \in 1..Len(pool) :
                     MayServe(pool[m], a) =>
                         /\ PoundsOf(pool[m]) <= PoundsOf(pool[n])
                         /\ m < n => PoundsOf(pool[m]) < PoundsOf(pool[n])]_vars

\* the state after the first round of a run with two agencies of equal weight,
\* when the pool still holds a pair as heavy as the one given to agency 1 and
\* feasible for it
C19_Witness ==
    /\ pc = "greedy_loop"
    /\ Len(agencies) = 2
    /\ agencyWeights[1] = agencyWeights[2]
    /\ DOMAIN allocation = {1}
    /\ Len(allocation[1]) = 1
    /\ \E k \in PoolPairs :
           /\ MayServe(k, 1)
           /\ PoundsOf(k) = PoundsOf(allocation[1][1])

\* agency a has the minimum utility / weight, and is the first such agency
Neediest(a) ==
    \A b \in AgencyIdx :
        /\ agencyUtilities[a] * agencyWeights[b] <= agencyUtilities[b] * agencyWeights[a]
        /\ b < a => agencyUtilities[a] * agencyWeights[b]
                        < agencyUtilities[b] * agencyWeights[a]

\* C20: when the neediest agency has no feasible pair in the pool, the next
\* step of the run is its end, with the allocation, the utilities and the pool
\* as they are: no other agency is tried.
C20_HaltsWhenNeediestStuck ==
    [][(pc = "greedy_loop" /\
        \E a \in AgencyIdx : Neediest(a) /\ \A k \in PoolPairs : ~MayServe(k, a)) =>
          /\ pc' = "greedy_done"
          /\ allocation' = allocation
          /\ agencyUtilities' = agencyUtilities
          /\ pool' = pool]_vars

\* a finished run that assigned a pair and left in the pool a pair that is
\* feasible for an agency
C20_Witness ==
    /\ pc = "greedy_done"
    /\ allocation # EmptyAllocation
    /\ \E k \in PoolPairs : \E b \in AgencyIdx : MayServe(k, b)

AssignedCount == SumOver(DOMAIN allocation, [a \in DOMAIN allocation |-> Len(allocation[a])])

\* C21: a greedy run always ends; every round either takes exactly one pair out
\* of the pool or ends the loop, so the pairs assigned so far and the pool
\* together are the items of the donors, and the assignment steps are at most
\* as many as the items.
C21_GreedyTerminates ==
    /\ <>(pc = "greedy_done")
    /\ [][pc = "greedy_loop" =>
             \/ pc' = "greedy_done" /\ pool' = pool /\ allocation' = allocation
             \/ /\ pc' = "greedy_loop"
                /\ Len(pool') = Len(pool) - 1
                /\ \E n \in 1..Len(pool) :
                       pool' = [m \in 1..(Len(pool) - 1) |->
                                   IF m < n THEN pool[m] ELSE pool[m + 1]]]_vars
    /\ [](GreedyRunning =>
             /\ AssignedCount + Len(pool) = Cardinality(ItemKeys)
             /\ AssignedCount <= Cardinality(ItemKeys))

\* the end of a run that assigned four items in four rounds
C21_Witness ==
    /\ pc = "greedy_done"
    /\ pool = <<>>
    /\ AssignedCount = 4

(***************************************************************************)
(* Specification of createDriverFeasibilityMatrix with up to                *)
(* MaxTensorDrivers drivers, on any adjacency matrix of the right shape.   *)
(***************************************************************************)
MaxTensorDrivers == 2

TensorInit ==
    /\ pc = "main"
    /\ agencies \in SeqsUpTo({Agency(NoneServed, t) : t \in PartnerTags}, MaxAgencies)
    /\ donors \in SeqsUpTo({Donor(b, <<>>) : b \in BOOLEAN}, MaxDonors)
    /\ drivers \in SeqsUpTo(DriverKinds, MaxTensorDrivers)
    /\ adjMatrix = ZeroAdjacency
    /\ agencyWeights = Unset
    /\ feasibilityMatrix = Unset
    /\ status = "none"
    /\ xVal = Unset
    /\ yVal = {}
    /\ rVal = NoValue
    /\ rfVal = Unset
    /\ allocation = EmptyAllocation
    /\ agencyUtilities = Unset
    /\ pool = <<>>
    /\ summary = Unset
    /\ greedyUtilities = Unset

TensorSpec == TensorInit /\ [][FeasNext]_vars

\* C22: the tensor has one row per agency, in it one row per donor, in it one
\* entry per driver, and entry [a][d][k] is true exactly when adjMatrix[d][a]
\* is 1, for every driver k alike.
C22_TensorShapeAndEntries ==
    pc = "feasibility_done" =>
        /\ DOMAIN feasibilityMatrix = 1..Len(agencies)
        /\ \A a \in 1..Len(agencies) :
               /\ DOMAIN feasibilityMatrix[a] = 1..Len(donors)
               /\ \A d \in 1..Len(donors) :
                      /\ DOMAIN feasibilityMatrix[a][d] = 1..Len(drivers)
                      /\ \A k \in 1..Len(drivers) :
                             feasibilityMatrix[a][d][k] <=> (adjMatrix[d][a] = 1)
                      /\ \A k, l \in 1..Len(drivers) :
                             feasibilityMatrix[a][d][k] = feasibilityMatrix[a][d][l]

\* a tensor for two agencies, one donor and two drivers, the donor adjacent to
\* the second agency only
C22_Witness ==
    /\ pc = "feasibility_done"
    /\ Len(agencies) = 2
    /\ Len(donors) = 1
    /\ Len(drivers) = 2
    /\ adjMatrix[1][1] = 0
    /\ adjMatrix[1][2] = 1
    /\ feasibilityMatrix[2][1][2]

\* the pounds of the pairs listed under agency a in the returned allocation
ListedPounds(a) ==
    IF a \in DOMAIN allocation
    THEN SumSeq([n \in 1..Len(allocation[a]) |-> PoundsOf(allocation[a][n])])
    ELSE 0

TotalDonorPounds == SumOver(ItemKeys, [k \in ItemKeys |-> PoundsOf(k)])

\* C23: every result of egalitarianILP has one utility per agency, equal to the
\* sum of the weights of the items listed under that agency (0 without items),
\* and the utilities together are at most the weight of all donor items.
C23_UtilityIsListedWeight ==
    pc = "returned" =>
        /\ DOMAIN agencyUtilities = 1..Len(agencies)
        /\ \A a \in 1..Len(agencies) : agencyUtilities[a] = ListedPounds(a)
        /\ SumOver(AgencyIdx, agencyUtilities) <= TotalDonorPounds

\* a result that lists a 10 lb and a 20 lb item under one agency and nothing
\* under the other
C23_Witness ==
    /\ pc = "returned"
    /\ Len(agencies) = 2
    /\ \E a \in DOMAIN allocation :
           /\ Len(allocation[a]) = 2
           /\ agencyUtilities[a] = 30
    /\ \E b \in AgencyIdx : b \notin DOMAIN allocation /\ agencyUtilities[b] = 0

(***************************************************************************)
(* Specification of egalitarianILP on inputs with one donor that offers    *)
(* three heavy items, one or two agencies, one driver of the smallest      *)
(* capacity and full adjacency.                                            *)
(***************************************************************************)
HeavyItemKinds ==
    { Item(20, [dairy |-> 10, meat |-> 10]),
      Item(15, [produce |-> 15]) }

HeavyItemInit ==
    /\ pc = "call"
    /\ agencies \in UNION {[1..n -> {Agency(Served(50), "missing"),
                                     Agency(Served(100), "missing")}] : n \in 1..2}
    /\ donors \in {<<Donor(FALSE, its)>> : its \in [1..3 -> HeavyItemKinds]}
    /\ drivers = <<Driver(50)>>
    /\ adjMatrix = FullAdjacency
    /\ agencyWeights = Unset
    /\ feasibilityMatrix = Unset
    /\ status = "none"
    /\ xVal = Unset
    /\ yVal = {}
    /\ rVal = NoValue
    /\ rfVal = Unset
    /\ allocation = EmptyAllocation
    /\ agencyUtilities = Unset
    /\ pool = <<>>
    /\ summary = Unset
    /\ greedyUtilities = Unset

HeavyItemSpec == HeavyItemInit /\ [][Next]_vars

\* the pounds agency a receives from donor d in the returned allocation
PoundsFrom(d, a) ==
    SumOver({k \in Pairs(a) : k[1] = d}, [k \in Pairs(a) |-> PoundsOf(k)])

\* the capacity of the drivers over the trips of the solution from d to a
CapacityOfTrips(d, a) ==
    LET trips == {tr \in yVal : tr[2] = a /\ tr[3] = d}
    IN  SumOver(trips, [tr \in trips |-> drivers[tr[4]].capacity])

\* C24: in an optimal result the items an agency receives from a donor weigh
\* at most the capacity of the drivers whose trips serve that pair.
C24_WithinDriverCapacity ==
    (pc = "returned" /\ status = "Optimal") =>
        \A a \in DOMAIN allocation : \A d \in DonorIdx :
            PoundsFrom(d, a) <= CapacityOfTrips(d, a)

\* the food-type quantities of every item sum to at most its weight
QuantitiesWithinWeight ==
    \A k \in ItemKeys :
        SumOver(FoodSet, donors[k[1]].items[k[2]].foodTypeQuantities) <= PoundsOf(k)

\* C25: in an optimal result every agency's utility (pounds of the items listed
\* for it) is at least r times its fairness weight, when the quantities of
\* each item sum to at most its weight; r is on the denominator
\* 5 * WeightProduct and the weights are in halves.
C25_UtilityCoversR ==
    (pc = "returned" /\ status = "Optimal" /\ QuantitiesWithinWeight) =>
        \A a \in AgencyIdx :
            10 * agencyUtilities[a] * WeightProduct >= rVal * agencyWeights[a]

\* an optimal result with r above 0 and two agencies of different utility
C25_Witness ==
    /\ pc = "returned"
    /\ status = "Optimal"
    /\ QuantitiesWithinWeight
    /\ rVal > 0
    /\ Len(agencies) = 2
    /\ agencyUtilities[1] # agencyUtilities[2]

(***************************************************************************)
(* Specification of egalitarianILP on inputs with two donors of two items  *)
(* each, two agencies, at most MaxDrivers drivers and full adjacency: four *)
(* pairs could be served, a driver has MaxTimeSteps trips.                 *)
(***************************************************************************)
FourItemInit ==
    /\ pc = "call"
    /\ agencies \in [1..2 -> {Agency(Served(50), "missing"), Agency(Served(100), "missing")}]
    /\ donors \in {<<Donor(FALSE, <<i, i>>), Donor(FALSE, <<i, i>>)>> : i \in ItemKinds}
    /\ drivers \in SeqsUpTo(DriverKinds, MaxDrivers)
    /\ adjMatrix = FullAdjacency
    /\ agencyWeights = Unset
    /\ feasibilityMatrix = Unset
    /\ status = "none"
    /\ xVal = Unset
    /\ yVal = {}
    /\ rVal = NoValue
    /\ rfVal = Unset
    /\ allocation = EmptyAllocation
    /\ agencyUtilities = Unset
    /\ pool = <<>>
    /\ summary = Unset
    /\ greedyUtilities = Unset

FourItemSpec == FourItemInit /\ [][Next]_vars

\* the (donor, agency) pairs with at least one item in the returned allocation
ServedPairs == UNION {{<<k[1], a>> : k \in Pairs(a)} : a \in DOMAIN allocation}

\* C26: an optimal result serves at most |timeSteps| x |drivers| distinct
\* (donor, agency) pairs, since each pair needs a trip and a driver makes at
\* most one trip per time step; without drivers it allocates nothing.
C26_PairsWithinTrips ==
    (pc = "returned" /\ status = "Optimal") =>
        /\ Cardinality(ServedPairs) <= Len(timeSteps) * Len(drivers)
        /\ drivers = <<>> => allocation = EmptyAllocation

\* an optimal result that serves as many pairs as the one driver has time
\* steps although four pairs are adjacent and four items are on offer
C26_Witness ==
    /\ pc = "returned"
    /\ status = "Optimal"
    /\ Len(drivers) = 1
    /\ Len(agencies) = 2
    /\ Len(donors) = 2
    /\ \A d \in DonorIdx, a \in AgencyIdx : adjMatrix[d][a] = 1
    /\ Cardinality(ItemKeys) = 4
    /\ Cardinality(ServedPairs) = Len(timeSteps)

(***************************************************************************)
(* Option 3 of main (main.py 94-144): leximinGreedy, then egalitarianILP   *)
(* on the same objects, then the comparison table.  MDMS values are in     *)
(* hundredths of a pound per person; a table row is kept as the pair       *)
(* <<ILP value, greedy value>> whose quotient the row prints.              *)
(***************************************************************************)
\* main.py 116: agency.servedPerWk and agency.servedPerWk > 0
compareAgencies ==
    {a \in AgencyIdx : agencies[a].servedPerWk.has /\ agencies[a].servedPerWk.val > 0}

\* main.py 117-120
MDMSValues(u) ==
    {(100 * u[a]) \div agencies[a].servedPerWk.val : a \in compareAgencies}

MDMSSum(u) ==
    SumOver(compareAgencies,
            [a \in compareAgencies |-> (100 * u[a]) \div agencies[a].servedPerWk.val])

\* main.py 132-139: the divisors of the "Improvement" column
CompareDivisors ==
    { MinOf(MDMSValues(greedyUtilities)),
      MDMSSum(greedyUtilities),
      MaxOf(MDMSValues(greedyUtilities)),
      MaxOf(MDMSValues(greedyUtilities)) - MinOf(MDMSValues(greedyUtilities)),
      SumOver(AgencyIdx, greedyUtilities) }

\* main.py 122: the table is printed only for a non-empty list
CompareRaises == compareAgencies # {} /\ 0 \in CompareDivisors

CompareInit ==
    /\ pc = "greedy_call"
    /\ agencies \in SeqsUpTo({Agency(Served(50), "missing"), Agency(Served(100), "missing")},
                             MaxAgencies)
    /\ donors \in SeqsUpTo({Donor(FALSE, its) : its \in SeqsUpTo(ItemKinds, MaxItems)},
                           MaxDonors)
    /\ drivers \in SeqsUpTo(DriverKinds, MaxDrivers)
    /\ adjMatrix \in AdjacencyMatrices
    /\ agencyWeights = Unset
    /\ feasibilityMatrix = Unset
    /\ status = "none"
    /\ xVal = Unset
    /\ yVal = {}
    /\ rVal = NoValue
    /\ rfVal = Unset
    /\ allocation = EmptyAllocation
    /\ agencyUtilities = Unset
    /\ pool = <<>>
    /\ summary = Unset
    /\ greedyUtilities = Unset

\* main.py 99-104: the greedy result is kept, egalitarianILP is called
CallILP ==
    /\ pc = "greedy_done"
    /\ greedyUtilities' = agencyUtilities
    /\ allocation' = EmptyAllocation
    /\ agencyUtilities' = Unset
    /\ agencyWeights' = Unset
    /\ pc' = "call"
    /\ UNCHANGED <<agencies, donors, drivers, adjMatrix, feasibilityMatrix,
                   status, xVal, yVal, rVal, rfVal, pool, summary>>

\* main.py 112-144: the table, when no divisor is zero
CompareTable ==
    /\ pc = "returned"
    /\ ~CompareRaises
    /\ summary' =
           IF compareAgencies = {} THEN <<>>
           ELSE [minMDMS |-> <<MinOf(MDMSValues(agencyUtilities)),
                               MinOf(MDMSValues(greedyUtilities))>>,
                 avgMDMS |-> <<MDMSSum(agencyUtilities), MDMSSum(greedyUtilities)>>,
                 maxMDMS |-> <<MaxOf(MDMSValues(agencyUtilities)),
                               MaxOf(MDMSValues(greedyUtilities))>>,
                 total   |-> <<SumOver(AgencyIdx, agencyUtilities),
                               SumOver(AgencyIdx, greedyUtilities)>>]
    /\ pc' = "compare_done"
    /\ UNCHANGED <<agencies, donors, drivers, adjMatrix, agencyWeights, feasibilityMatrix,
                   status, xVal, yVal, rVal, rfVal, allocation, agencyUtilities, pool,
                   greedyUtilities>>

\* main.py 132-139: a zero divisor raises ZeroDivisionError
CompareTableRaises ==
    /\ pc = "returned"
    /\ CompareRaises
    /\ pc' = "compare_raised"
    /\ UNCHANGED <<agencies, donors, drivers, adjMatrix, agencyWeights, feasibilityMatrix,
                   status, xVal, yVal, rVal, rfVal, allocation, agencyUtilities, pool,
                   summary, greedyUtilities>>

CompareNext ==
    \/ GreedyNext
    \/ CallILP
    \/ Next
    \/ CompareTable
    \/ CompareTableRaises

CompareSpec == CompareInit /\ [][CompareNext]_vars

\* C27: in compare-both mode the table of greedy against ILP is computed
\* without error for every pair of results of the two allocators, also when
\* the greedy minimum ratio, total or range is 0.
C27_CompareCompletes == pc # "compare_raised"

====
